---- MODULE Spec2Model ----
(***************************************************************************)
(* Model of qubes/events.py: the event emitter.  Types carry a table of    *)
(* the handlers declared directly on them (EmitterMeta.__init__), objects  *)
(* carry a table of the handlers registered on them (add_handler /         *)
(* remove_handler), and fire_event / fire_event_pre walk the method        *)
(* resolution order and the object, calling the handlers of each node.     *)
(*                                                                         *)
(* A firing call is modelled one handler invocation per step, so that the  *)
(* order of invocations, a raising handler and the tables read at each     *)
(* node are observable.  The handler tables are defaultdict(set) read only *)
(* through get(event, set()), `in` and [event]: a missing key and an empty *)
(* set cannot be told apart by any of those, and a table is modelled as a  *)
(* total function from event names to sets of functions.                   *)
(***************************************************************************)
EXTENDS Integers, Sequences, FiniteSets, TLC

\* ---------------------------------------------------------------- bounds
\* total number of (object, event, function) registrations held at once
MaxRegs == 2

\* ------------------------------------------------------- the host program
\* Event names used by the host; "*" is the reserved match-all name.
EventNames == {"x", "y", "*"}

\* The emitter objects the host may create.
Objs == {"o1", "o2"}

\* The declared types: object <- Emitter <- A <- {B, C, E}, D(B, C), and F,
\* a direct subclass of Emitter that is declared and never instantiated.
Types == {"object", "Emitter", "A", "B", "C", "D", "E", "F"}

\* The types the host instantiates: o1 is a D or an E, o2 is an E.
InstTypes(o) == IF o = "o1" THEN {"D", "E"} ELSE {"E"}

Bases(t) ==
    CASE t = "object"  -> <<>>
      [] t = "Emitter" -> <<"object">>
      [] t = "A"       -> <<"Emitter">>
      [] t = "B"       -> <<"A">>
      [] t = "C"       -> <<"A">>
      [] t = "E"       -> <<"A">>
      [] t = "D"       -> <<"B", "C">>
      [] t = "F"       -> <<"Emitter">>

\* The functions of the host program: class members and plain functions.
Funcs == {"hA", "hW", "hU", "hB", "hC", "hD", "pC", "pF", "helper", "g1", "g2"}

NoType == "no-type"

\* Python values a handler can return: None, or a list of effects.
None == [none |-> TRUE, items |-> <<>>]
List(s) == [none |-> FALSE, items |-> s]

\* hasattr(func, 'ha_events'): the function was marked for some events.
has_ha_events(f) == f \in {"hA", "hW", "hU", "hB", "hC", "hD", "pC", "pF", "g2"}

\* func.ha_events of a marked function.
ha_events(f) ==
    CASE f = "hA" -> {"x"}
      [] f = "hW" -> {"*", "x"}
      [] f = "hU" -> {"x"}
      [] f = "hB" -> {"x"}
      [] f = "hC" -> {"x"}
      [] f = "hD" -> {"x", "y"}
      [] f = "pC" -> {"x"}
      [] f = "pF" -> {"x"}
      [] f = "g2" -> {"x"}
      [] OTHER    -> {}

\* hasattr(func, 'ha_bound'): set by the decorator of handler(), absent on a
\* function that was marked by hand or not at all.
has_ha_bound(f) == f \in {"hA", "hW", "hB", "hC", "hD", "pC", "pF", "g2"}

\* The members each type declares directly (dict_ of the class statement).
\* A and B both declare on_x; E declares no function at all; C declares a
\* managed attribute "label" whose name property_list() reports; F, which
\* has no property_list(), declares a member of the same name.
ClassDict(t) ==
    CASE t = "Emitter" -> [a \in {"helper"} |-> "helper"]
      [] t = "A" -> [a \in {"on_x", "on_any", "tap"} |->
                        CASE a = "on_x" -> "hA"
                          [] a = "on_any" -> "hW"
                          [] a = "tap" -> "hU"]
      [] t = "B" -> [a \in {"on_x"} |-> "hB"]
      [] t = "C" -> [a \in {"on_c", "label"} |->
                        CASE a = "on_c" -> "hC"
                          [] a = "label" -> "pC"]
      [] t = "D" -> [a \in {"on_d"} |-> "hD"]
      [] t = "E" -> [a \in {"events_enabled"} |-> "True"]
      [] t = "F" -> [a \in {"label"} |-> "pF"]
      [] OTHER   -> [a \in {} |-> "True"]

\* Types created by the metaclass EmitterMeta (Emitter and its subclasses).
EmitterTypes == Types \ {"object"}

\* cls.property_list(), where the type has one; AttributeError elsewhere.
HasPropertyList(t) == t \in {"C", "D"}
property_list(t) == IF t \in {"C", "D"} THEN {"label"} ELSE {}

\* What a handler returns when called: None, or an iterable of effects.
Returns(f) ==
    CASE f = "hA" -> List(<<1, 2>>)
      [] f = "hB" -> List(<<3>>)
      [] f = "hC" -> List(<<5>>)
      [] f = "hU" -> List(<<>>)
      [] f = "g1" -> List(<<4>>)
      [] f = "g2" -> List(<<>>)
      [] OTHER    -> None

\* Handlers that may raise instead of returning, depending on their input.
MayRaise == {"hA", "g1"}

\* Handlers that, depending on their input, call self.add_handler or
\* self.remove_handler for the event they are called with, and the function
\* they register or unregister.
Registrars == {"hD", "g2"}
HookFunc == "g1"

\* Handlers that, depending on their input, fire InnerEvent on an object
\* before they return.
Firers == {"hC"}
InnerEvent == "y"

\* Handlers that, depending on their input, set self.events_enabled to False
\* before they return.
Disablers == {"hA", "g2"}

\* The events and functions the host registers and unregisters at run time.
RegEvents == {"x", "*"}
AddFuncs == {"g1", "g2"}
RemoveFuncs == {"g1", "g2", "hA"}

\* ------------------------------------------------------ type(...).__mro__
InTail(c, s) == \E i \in 2..Len(s) : s[i] = c

RECURSIVE Merge(_)
Merge(seqs) ==
    LET ne == SelectSeq(seqs, LAMBDA s : s # <<>>) IN
    IF ne = <<>> THEN <<>>
    ELSE LET good(i) == \A j \in 1..Len(ne) : ~InTail(Head(ne[i]), ne[j])
             k == CHOOSE i \in 1..Len(ne) :
                      good(i) /\ \A j \in 1..(i - 1) : ~good(j)
             c == Head(ne[k])
         IN <<c>> \o Merge([j \in 1..Len(ne) |->
                               IF Head(ne[j]) = c THEN Tail(ne[j]) ELSE ne[j]])

\* Mutant of Mro: the linearizations of the bases are concatenated, so a
\* shared ancestor appears once per path.
RECURSIVE Mro_Concat(_)
Mro_Concat(t) ==
    LET RECURSIVE Cat(_)
        Cat(bs) == IF bs = <<>> THEN <<>> ELSE Mro_Concat(Head(bs)) \o Cat(Tail(bs))
    IN <<t>> \o Cat(Bases(t))

RECURSIVE Mro(_)
Mro(t) ==
    <<t>> \o Merge([i \in 1..Len(Bases(t)) |-> Mro(Bases(t)[i])] \o <<Bases(t)>>)

Reverse(s) == [i \in 1..Len(s) |-> s[Len(s) + 1 - i]]

\* ------------------------------------------------------------ ishandler()
ishandler(obj) == obj \in Funcs /\ has_ha_events(obj)

\* ------------------------------------------- EmitterMeta.__init__ (table)
propnames(t) == IF HasPropertyList(t) THEN property_list(t) ELSE {}

\* Mutant of BuildHandlers: the names of property_list() are not skipped.
BuildHandlers_NoSkip(t) ==
    LET dict_ == ClassDict(t)
        own == {a \in DOMAIN dict_ : ishandler(dict_[a])}
    IN [e \in EventNames |-> {dict_[a] : a \in {b \in own : e \in ha_events(dict_[b])}}]

\* Mutant of BuildHandlers: a member that a subclass declares again under the
\* same name is left to the subclass.
BuildHandlers_Shadowed(t) ==
    LET dict_ == ClassDict(t)
        shadowed == {a \in DOMAIN dict_ :
                        \E u \in Types \ {t} :
                            /\ \E i \in 1..Len(Mro(u)) : Mro(u)[i] = t
                            /\ a \in DOMAIN ClassDict(u)}
        own == {a \in DOMAIN dict_ \ shadowed :
                   a \notin propnames(t) /\ ishandler(dict_[a])}
    IN [e \in EventNames |-> {dict_[a] : a \in {b \in own : e \in ha_events(dict_[b])}}]

\* Mutant of BuildHandlers: scans the inherited members too (dir(cls)).
BuildHandlers_Inherited(t) ==
    LET members == UNION {{ClassDict(Mro(t)[i])[a] :
                              a \in DOMAIN ClassDict(Mro(t)[i]) \ propnames(t)} :
                             i \in 1..Len(Mro(t))}
    IN [e \in EventNames |-> {m \in members : ishandler(m) /\ e \in ha_events(m)}]

BuildHandlers(t) ==
    LET dict_ == ClassDict(t)
        own == {a \in DOMAIN dict_ : a \notin propnames(t) /\ ishandler(dict_[a])}
    IN [e \in EventNames |-> {dict_[a] : a \in {b \in own : e \in ha_events(dict_[b])}}]

\* ------------------------------------------------------------------ state
VARIABLES
    cls_handlers,    \* type -> its __handlers__ table; object has none
    otype,           \* object -> its class, NoType before it is created
    events_enabled,  \* object -> its events_enabled attribute
    inst_handlers,   \* object -> its own __handlers__ table
    pc,              \* "idle", "dispatch" (inside a firing call) or "done"
    call,            \* the operation in progress or last completed
    nodes,           \* firing call: the order it walks
    ni,              \* firing call: index in nodes of the node being processed
    pending,         \* firing call: sorted handlers of that node still to call
    effects,         \* firing call: the effects list accumulated so far
    trace,           \* firing call: <<node, function>> of each invocation made
    result,          \* outcome of the last completed operation
    saved,           \* the object's table as it was before the last add_handler
    stack,           \* frames of the firing calls suspended in a handler
    log              \* handler entries and exits of the host call, all frames

vars == <<cls_handlers, otype, events_enabled, inst_handlers, pc, call, nodes,
          ni, pending, effects, trace, result, saved, stack, log>>

NoCall == [op |-> "none", obj |-> "none", event |-> "none", fn |-> "none"]
NoExc == <<"none", "none">>
NoResult == [status |-> "none", value |-> None, exc |-> NoExc]
Returned(v) == [status |-> "returned", value |-> v, exc |-> NoExc]
Raised(x, by) == [status |-> "raised", value |-> None, exc |-> <<x, by>>]

EmptyTable == [e \in EventNames |-> {}]
NoSaved == [valid |-> FALSE, table |-> EmptyTable]

Live == {o \in Objs : otype[o] # NoType}

\* The host is between two calls: nothing runs and no frame is suspended.
AtTop == pc \in {"idle", "done"} /\ stack = <<>>

\* The frame of the firing call that is running.
Frame == [call |-> call, nodes |-> nodes, ni |-> ni, pending |-> pending,
          effects |-> effects, trace |-> trace]

\* Nesting depth of the running firing call.
Depth == Len(stack) + 1

\* A line of the log: at depth d, function f of node n was entered, or left
\* by returning val or by raising, having done act meanwhile.
Entry(d, n, f, tag, val, act) ==
    [d |-> d, n |-> n, f |-> f, tag |-> tag, val |-> val, act |-> act]


\* -------------------------------------------- Emitter._fire_event_in_order
\* i.__handlers__ of a node of the order: the object's own table, a type's
\* table; the attribute lookup raises AttributeError where there is none.
HasHandlersDict(i, ch) == i \in Objs \/ i \in DOMAIN ch

HandlersDict(i, ch, ih) == IF i \in Objs THEN ih[i] ELSE ch[i]

\* Mutant of Candidates: the "*" handlers are left out.
Candidates_NoWildcard(handlers_dict, event) == handlers_dict[event]

\* handlers_dict.get(event, set()), united with handlers_dict['*'].
Candidates(handlers_dict, event) ==
    LET handlers == handlers_dict[event] IN
    IF handlers_dict["*"] # {} THEN handlers_dict["*"] \cup handlers
    ELSE handlers

RECURSIVE Perms(_)
Perms(S) ==
    IF S = {} THEN {<<>>}
    ELSE UNION {{<<f>> \o p : p \in Perms(S \ {f})} : f \in S}

\* Mutant of SortedHandlers: sorted without reverse=True.
SortedHandlers_NoReverse(handlers) ==
    {p \in Perms(handlers) :
        \A i, j \in 1..Len(p) :
            i < j => ~(has_ha_bound(p[i]) /\ ~has_ha_bound(p[j]))}

\* sorted(handlers, key=hasattr(handler, 'ha_bound'), reverse=True): every
\* order of the set that puts the functions having ha_bound first; the order
\* among equal keys is the iteration order of the set, which is arbitrary.
SortedHandlers(handlers) ==
    {p \in Perms(handlers) :
        \A i, j \in 1..Len(p) :
            i < j => ~(~has_ha_bound(p[i]) /\ has_ha_bound(p[j]))}

\* The next node after position `from` that has a table and some handler to
\* call for the event; Len(ns) + 1 when the loop over the order runs out.
NextNode(ns, from, event, ch, ih) ==
    LET hit == {k \in (from + 1)..Len(ns) :
                   /\ HasHandlersDict(ns[k], ch)
                   /\ Candidates(HandlersDict(ns[k], ch, ih), event) # {}}
    IN IF hit = {} THEN Len(ns) + 1
       ELSE CHOOSE k \in hit : \A m \in hit : k <= m

\* Mutant of Extend: the list is replaced instead of extended.
Extend_Overwrite(effs, effect) == IF effect # None THEN effect.items ELSE effs

\* effects.extend(effect) unless effect is None.
Extend(effs, effect) == IF effect # None THEN effs \o effect.items ELSE effs

\* Mutant of FireOrder: the MRO is not reversed.
FireOrder_NotReversed(o) == Mro(otype[o]) \o <<o>>

\* itertools.chain(reversed(self.__class__.__mro__), (self,))
FireOrder(o) == Reverse(Mro(otype[o])) \o <<o>>

\* Mutant of FirePreOrder: the MRO is walked base first.
FirePreOrder_BaseFirst(o) == <<o>> \o Reverse(Mro(otype[o]))

\* itertools.chain((self,), self.__class__.__mro__)
FirePreOrder(o) == <<o>> \o Mro(otype[o])

\* Mutant of Advance: the tables are the ones of before the handler ran.
Advance_Stale(ns, from, event, effs) ==
    LET k == NextNode(ns, from, event, cls_handlers, inst_handlers) IN
    /\ ni' = k
    /\ IF k > Len(ns)
       THEN /\ pending' = <<>>
            /\ pc' = "done"
            /\ result' = Returned(List(effs))
       ELSE /\ pending' \in SortedHandlers(
                   Candidates(HandlersDict(ns[k], cls_handlers, inst_handlers), event))
            /\ pc' = "dispatch"
            /\ result' = NoResult

\* The loop moves on from position `from`: it reaches the next node with
\* handlers and sorts them, or runs out of nodes and returns the effects.
Advance(ns, from, event, effs) ==
    LET k == NextNode(ns, from, event, cls_handlers', inst_handlers') IN
    /\ ni' = k
    /\ IF k > Len(ns)
       THEN /\ pending' = <<>>
            /\ pc' = "done"
            /\ result' = Returned(List(effs))
       ELSE /\ pending' \in SortedHandlers(
                   Candidates(HandlersDict(ns[k], cls_handlers', inst_handlers'), event))
            /\ pc' = "dispatch"
            /\ result' = NoResult

\* Mutant of FireInOrder: events_enabled is not tested.
FireInOrder_NoEnabledTest(op, o, order, event) ==
    /\ o \in Live
    /\ call' = [op |-> op, obj |-> o, event |-> event, fn |-> "none"]
    /\ nodes' = order
    /\ effects' = <<>>
    /\ trace' = <<>>
    /\ saved' = NoSaved
    /\ UNCHANGED <<cls_handlers, otype, events_enabled, inst_handlers>>
    /\ Advance(order, 0, event, <<>>)

\* _fire_event_in_order(order, event, kwargs) is entered: a new frame, which
\* ends at once when the object has events disabled.
FireInOrder(op, o, order, event) ==
    /\ o \in Live
    /\ call' = [op |-> op, obj |-> o, event |-> event, fn |-> "none"]
    /\ nodes' = order
    /\ effects' = <<>>
    /\ trace' = <<>>
    /\ saved' = NoSaved
    /\ UNCHANGED <<cls_handlers, otype, events_enabled, inst_handlers>>
    /\ IF ~events_enabled[o]
       THEN /\ ni' = 0
            /\ pending' = <<>>
            /\ pc' = "done"
            /\ result' = Returned(List(<<>>))
       ELSE Advance(order, 0, event, <<>>)

\* The host calls obj.fire_event(event).
fire_event(o, event) ==
    /\ AtTop
    /\ FireInOrder("fire_event", o, FireOrder(o), event)
    /\ stack' = <<>>
    /\ log' = <<>>

\* The host calls obj.fire_event_pre(event).
fire_event_pre(o, event) ==
    /\ AtTop
    /\ FireInOrder("fire_event_pre", o, FirePreOrder(o), event)
    /\ stack' = <<>>
    /\ log' = <<>>

\* The handler at the head of frame fr returns value: its effect is
\* collected and the loop of fr goes on.
Resume(fr, value) ==
    LET func == Head(fr.pending)
        effs == Extend(fr.effects, value)
    IN /\ call' = fr.call
       /\ nodes' = fr.nodes
       /\ trace' = Append(fr.trace, <<fr.nodes[fr.ni], func>>)
       /\ effects' = effs
       /\ IF Tail(fr.pending) # <<>>
          THEN /\ pending' = Tail(fr.pending)
               /\ ni' = fr.ni
               /\ pc' = "dispatch"
               /\ result' = NoResult
          ELSE Advance(fr.nodes, fr.ni, fr.call.event, effs)

\* The two lines a handler leaves in the log when it runs without firing.
Ran(func, tag, val, act) ==
    log \o <<Entry(Depth, nodes[ni], func, "enter", None, "none"),
             Entry(Depth, nodes[ni], func, tag, val, act)>>

\* func(self, event, **kwargs) returns; its effect is collected.
HandlerReturns ==
    /\ pc = "dispatch"
    /\ UNCHANGED <<cls_handlers, otype, events_enabled, inst_handlers, saved, stack>>
    /\ log' = Ran(Head(pending), "exit", Returns(Head(pending)), "none")
    /\ Resume(Frame, Returns(Head(pending)))

\* Mutant of HandlerRaises: the exception is kept for later and the loop
\* goes on with the handlers left at the node.
HandlerRaises_Deferred ==
    /\ pc = "dispatch"
    /\ Head(pending) \in MayRaise
    /\ trace' = Append(trace, <<nodes[ni], Head(pending)>>)
    /\ pending' = Tail(pending)
    /\ pc' = IF Tail(pending) = <<>> THEN "done" ELSE "dispatch"
    /\ result' = Raised("HandlerFailure", Head(pending))
    /\ log' = Ran(Head(pending), "raise", None, "none")
    /\ UNCHANGED <<cls_handlers, otype, events_enabled, inst_handlers, call,
                   nodes, ni, effects, saved, stack>>

\* func(self, event, **kwargs) raises: the exception leaves the loop and the
\* firing call; the local effects list is lost with the frame.
HandlerRaises ==
    /\ pc = "dispatch"
    /\ Head(pending) \in MayRaise
    /\ trace' = Append(trace, <<nodes[ni], Head(pending)>>)
    /\ pending' = Tail(pending)
    /\ pc' = "done"
    /\ result' = Raised("HandlerFailure", Head(pending))
    /\ log' = Ran(Head(pending), "raise", None, "none")
    /\ UNCHANGED <<cls_handlers, otype, events_enabled, inst_handlers, call,
                   nodes, ni, effects, saved, stack>>

\* ------------------------------------------------- the registration calls
Regs == {r \in Objs \X EventNames \X Funcs : r[3] \in inst_handlers[r[1]][r[2]]}

NoFrame ==
    /\ nodes' = <<>>
    /\ ni' = 0
    /\ pending' = <<>>
    /\ effects' = <<>>
    /\ trace' = <<>>
    /\ stack' = <<>>
    /\ log' = <<>>

\* Mutant of SetAdd: adding a function that is present takes it out.
SetAdd_Toggle(handlers_dict, event, func) ==
    [handlers_dict EXCEPT ![event] =
        IF func \in @ THEN @ \ {func} ELSE @ \cup {func}]

\* self.__handlers__[event].add(func)
SetAdd(handlers_dict, event, func) ==
    [handlers_dict EXCEPT ![event] = @ \cup {func}]

\* Mutant of add_handler: the function is registered on every object of the
\* class of o.
add_handler_PerClass(o, event, func) ==
    /\ AtTop
    /\ o \in Live
    /\ func \in inst_handlers[o][event] \/ Cardinality(Regs) < MaxRegs
    /\ inst_handlers' = [p \in Objs |->
                            IF otype[p] = otype[o]
                            THEN SetAdd(inst_handlers[p], event, func)
                            ELSE inst_handlers[p]]
    /\ call' = [op |-> "add_handler", obj |-> o, event |-> event, fn |-> func]
    /\ result' = Returned(None)
    /\ saved' = [valid |-> TRUE, table |-> inst_handlers[o]]
    /\ pc' = "done"
    /\ NoFrame
    /\ UNCHANGED <<cls_handlers, otype, events_enabled>>

\* Mutant of add_handler: the function is added to the table of the class.
add_handler_OnClass(o, event, func) ==
    /\ AtTop
    /\ o \in Live
    /\ cls_handlers' = [cls_handlers EXCEPT ![otype[o]] = SetAdd(@, event, func)]
    /\ call' = [op |-> "add_handler", obj |-> o, event |-> event, fn |-> func]
    /\ result' = Returned(None)
    /\ saved' = [valid |-> TRUE, table |-> inst_handlers[o]]
    /\ pc' = "done"
    /\ NoFrame
    /\ UNCHANGED <<inst_handlers, otype, events_enabled>>

add_handler(o, event, func) ==
    /\ AtTop
    /\ o \in Live
    /\ func \in inst_handlers[o][event] \/ Cardinality(Regs) < MaxRegs
    /\ inst_handlers' = [inst_handlers EXCEPT ![o] = SetAdd(@, event, func)]
    /\ call' = [op |-> "add_handler", obj |-> o, event |-> event, fn |-> func]
    /\ result' = Returned(None)
    /\ saved' = [valid |-> TRUE, table |-> inst_handlers[o]]
    /\ pc' = "done"
    /\ NoFrame
    /\ UNCHANGED <<cls_handlers, otype, events_enabled>>

\* Mutant of SetRemoveRaises: set.discard, which never raises.
SetRemoveRaises_Discard(handlers_dict, event, func) == FALSE

\* Mutant of SetRemove: the whole set of the event is dropped.
SetRemove_Clear(handlers_dict, event, func) ==
    [handlers_dict EXCEPT ![event] = {}]

\* self.__handlers__[event].remove(func): set.remove raises KeyError when
\* the element is missing.
SetRemoveRaises(handlers_dict, event, func) == func \notin handlers_dict[event]

SetRemove(handlers_dict, event, func) ==
    [handlers_dict EXCEPT ![event] = @ \ {func}]

remove_handler(o, event, func) ==
    /\ AtTop
    /\ o \in Live
    /\ call' = [op |-> "remove_handler", obj |-> o, event |-> event, fn |-> func]
    /\ IF SetRemoveRaises(inst_handlers[o], event, func)
       THEN /\ result' = Raised("KeyError", "remove")
            /\ UNCHANGED inst_handlers
       ELSE /\ result' = Returned(None)
            /\ inst_handlers' = [inst_handlers EXCEPT ![o] = SetRemove(@, event, func)]
    /\ saved' = IF call = [op |-> "add_handler", obj |-> o, event |-> event, fn |-> func]
                THEN saved ELSE NoSaved
    /\ pc' = "done"
    /\ NoFrame
    /\ UNCHANGED <<cls_handlers, otype, events_enabled>>

\* ------------------------------------------------------- Emitter.__init__
\* hasattr(self, 'events_enabled') before __init__ sets it: true when a class
\* of the object's MRO declares the attribute.
ClassDefault(t) ==
    \E i \in 1..Len(Mro(t)) : "events_enabled" \in DOMAIN ClassDict(Mro(t)[i])

NewEmitter(o, t) ==
    /\ AtTop
    /\ otype[o] = NoType
    /\ otype' = [otype EXCEPT ![o] = t]
    /\ events_enabled' = [events_enabled EXCEPT ![o] = ClassDefault(t)]
    /\ inst_handlers' = [inst_handlers EXCEPT ![o] = EmptyTable]
    /\ call' = [op |-> "__init__", obj |-> o, event |-> "none", fn |-> "none"]
    /\ result' = Returned(None)
    /\ saved' = NoSaved
    /\ pc' = "done"
    /\ NoFrame
    /\ UNCHANGED cls_handlers

\* The host writes the attribute: obj.events_enabled = b.
SetEventsEnabled(o, b) ==
    /\ AtTop
    /\ o \in Live
    /\ events_enabled[o] # b
    /\ events_enabled' = [events_enabled EXCEPT ![o] = b]
    /\ call' = [op |-> "set_events_enabled", obj |-> o, event |-> "none", fn |-> "none"]
    /\ result' = Returned(None)
    /\ saved' = NoSaved
    /\ pc' = "done"
    /\ NoFrame
    /\ UNCHANGED <<cls_handlers, otype, inst_handlers>>

\* ------------------------------------------- handlers that call the emitter
\* Mutant of HandlerAdds: the loop over the node starts again on the set
\* that changed.
HandlerAdds_Restart ==
    /\ pc = "dispatch"
    /\ Head(pending) \in Registrars
    /\ HookFunc \notin inst_handlers[call.obj][call.event]
    /\ Cardinality(Regs) < MaxRegs
    /\ inst_handlers' = [inst_handlers EXCEPT
                            ![call.obj] = SetAdd(@, call.event, HookFunc)]
    /\ UNCHANGED <<cls_handlers, otype, events_enabled, saved, stack>>
    /\ log' = Ran(Head(pending), "exit", Returns(Head(pending)), "add")
    /\ call' = call
    /\ nodes' = nodes
    /\ trace' = Append(trace, <<nodes[ni], Head(pending)>>)
    /\ effects' = Extend(effects, Returns(Head(pending)))
    /\ Advance(nodes, ni - 1, call.event, effects')

\* The running handler calls self.add_handler(event, HookFunc), then returns.
HandlerAdds ==
    /\ pc = "dispatch"
    /\ Head(pending) \in Registrars
    /\ HookFunc \notin inst_handlers[call.obj][call.event]
    /\ Cardinality(Regs) < MaxRegs
    /\ inst_handlers' = [inst_handlers EXCEPT
                            ![call.obj] = SetAdd(@, call.event, HookFunc)]
    /\ UNCHANGED <<cls_handlers, otype, events_enabled, saved, stack>>
    /\ log' = Ran(Head(pending), "exit", Returns(Head(pending)), "add")
    /\ Resume(Frame, Returns(Head(pending)))

\* Mutant of HandlerRemoves: the loop iterates over the live set, so the
\* function removed is not called any more.
HandlerRemoves_Live ==
    /\ pc = "dispatch"
    /\ Head(pending) \in Registrars
    /\ ~SetRemoveRaises(inst_handlers[call.obj], call.event, HookFunc)
    /\ inst_handlers' = [inst_handlers EXCEPT
                            ![call.obj] = SetRemove(@, call.event, HookFunc)]
    /\ UNCHANGED <<cls_handlers, otype, events_enabled, saved, stack>>
    /\ log' = Ran(Head(pending), "exit", Returns(Head(pending)), "remove")
    /\ Resume([Frame EXCEPT !.pending =
                  <<Head(pending)>> \o
                  SelectSeq(Tail(pending), LAMBDA f : f # HookFunc)],
              Returns(Head(pending)))

\* The running handler calls self.remove_handler(event, HookFunc), then
\* returns.
HandlerRemoves ==
    /\ pc = "dispatch"
    /\ Head(pending) \in Registrars
    /\ ~SetRemoveRaises(inst_handlers[call.obj], call.event, HookFunc)
    /\ inst_handlers' = [inst_handlers EXCEPT
                            ![call.obj] = SetRemove(@, call.event, HookFunc)]
    /\ UNCHANGED <<cls_handlers, otype, events_enabled, saved, stack>>
    /\ log' = Ran(Head(pending), "exit", Returns(Head(pending)), "remove")
    /\ Resume(Frame, Returns(Head(pending)))

\* The running handler calls o.fire_event(InnerEvent) or
\* o.fire_event_pre(InnerEvent): its frame waits for the inner call.
HandlerFires(o, op) ==
    /\ pc = "dispatch"
    /\ Head(pending) \in Firers
    /\ stack' = Append(stack, Frame)
    /\ log' = Append(log, Entry(Depth, nodes[ni], Head(pending), "enter", None, "fire"))
    /\ FireInOrder(op, o,
                   IF op = "fire_event" THEN FireOrder(o) ELSE FirePreOrder(o),
                   InnerEvent)

\* Mutant of HandlerResumes: the effects of the inner call are put on the
\* list of the outer call whatever the handler returns.
HandlerResumes_Leak(pass) ==
    /\ pc = "done"
    /\ stack # <<>>
    /\ result.status = "returned"
    /\ LET fr == stack[Len(stack)]
           func == Head(fr.pending)
           value == IF pass THEN result.value ELSE Returns(func)
       IN /\ stack' = SubSeq(stack, 1, Len(stack) - 1)
          /\ UNCHANGED <<cls_handlers, otype, events_enabled, inst_handlers, saved>>
          /\ log' = Append(log, Entry(Len(stack), fr.nodes[fr.ni], func, "exit",
                                      value, "fire"))
          /\ Resume([fr EXCEPT !.effects = @ \o result.value.items], value)

\* The inner call returned its effects to the handler that made it; the
\* handler returns them, or returns what it returns otherwise.
HandlerResumes(pass) ==
    /\ pc = "done"
    /\ stack # <<>>
    /\ result.status = "returned"
    /\ LET fr == stack[Len(stack)]
           func == Head(fr.pending)
           value == IF pass THEN result.value ELSE Returns(func)
       IN /\ stack' = SubSeq(stack, 1, Len(stack) - 1)
          /\ UNCHANGED <<cls_handlers, otype, events_enabled, inst_handlers, saved>>
          /\ log' = Append(log, Entry(Len(stack), fr.nodes[fr.ni], func, "exit",
                                      value, "fire"))
          /\ Resume(fr, value)

\* The inner call raised: the exception passes through the handler that
\* made the call and ends the outer call too.
HandlerReraises ==
    /\ pc = "done"
    /\ stack # <<>>
    /\ result.status = "raised"
    /\ LET fr == stack[Len(stack)]
           func == Head(fr.pending)
       IN /\ stack' = SubSeq(stack, 1, Len(stack) - 1)
          /\ call' = fr.call
          /\ nodes' = fr.nodes
          /\ ni' = fr.ni
          /\ trace' = Append(fr.trace, <<fr.nodes[fr.ni], func>>)
          /\ pending' = Tail(fr.pending)
          /\ effects' = fr.effects
          /\ log' = Append(log, Entry(Len(stack), fr.nodes[fr.ni], func, "raise",
                                      None, "fire"))
          /\ UNCHANGED <<cls_handlers, otype, events_enabled, inst_handlers,
                         saved, pc, result>>

\* Mutant of HandlerDisables: the loop tests the flag again and the call
\* returns an empty list at once.
HandlerDisables_Stops ==
    /\ pc = "dispatch"
    /\ Head(pending) \in Disablers
    /\ events_enabled[call.obj]
    /\ events_enabled' = [events_enabled EXCEPT ![call.obj] = FALSE]
    /\ UNCHANGED <<cls_handlers, otype, inst_handlers, saved, stack>>
    /\ log' = Ran(Head(pending), "exit", Returns(Head(pending)), "disable")
    /\ trace' = Append(trace, <<nodes[ni], Head(pending)>>)
    /\ pending' = <<>>
    /\ effects' = <<>>
    /\ pc' = "done"
    /\ result' = Returned(List(<<>>))
    /\ UNCHANGED <<call, nodes, ni>>

\* The running handler sets self.events_enabled = False, then returns.
HandlerDisables ==
    /\ pc = "dispatch"
    /\ Head(pending) \in Disablers
    /\ events_enabled[call.obj]
    /\ events_enabled' = [events_enabled EXCEPT ![call.obj] = FALSE]
    /\ UNCHANGED <<cls_handlers, otype, inst_handlers, saved, stack>>
    /\ log' = Ran(Head(pending), "exit", Returns(Head(pending)), "disable")
    /\ Resume(Frame, Returns(Head(pending)))

\* ---------------------------------------------------------- specification
\* After the class statements have run: every type made by EmitterMeta has
\* its table, no object exists yet.
Init ==
    /\ cls_handlers = [t \in EmitterTypes |-> BuildHandlers(t)]
    /\ otype = [o \in Objs |-> NoType]
    /\ events_enabled = [o \in Objs |-> FALSE]
    /\ inst_handlers = [o \in Objs |-> EmptyTable]
    /\ pc = "idle"
    /\ call = NoCall
    /\ nodes = <<>>
    /\ ni = 0
    /\ pending = <<>>
    /\ effects = <<>>
    /\ trace = <<>>
    /\ result = NoResult
    /\ saved = NoSaved
    /\ stack = <<>>
    /\ log = <<>>

Next ==
    \/ \E o \in Objs : \E t \in InstTypes(o) : NewEmitter(o, t)
    \/ \E o \in Objs, b \in BOOLEAN : SetEventsEnabled(o, b)
    \/ \E o \in Objs, e \in RegEvents, f \in AddFuncs : add_handler(o, e, f)
    \/ \E o \in Objs, e \in RegEvents, f \in RemoveFuncs : remove_handler(o, e, f)
    \/ \E o \in Objs, e \in EventNames : fire_event(o, e)
    \/ \E o \in Objs, e \in EventNames : fire_event_pre(o, e)
    \/ HandlerReturns
    \/ HandlerRaises

Spec == Init /\ [][Next]_vars

\* The steps of a firing call in progress: the interpreter runs them one
\* after the other without waiting for anything.
Running ==
    \/ HandlerReturns
    \/ HandlerRaises
    \/ HandlerAdds
    \/ HandlerRemoves
    \/ \E o \in Objs, op \in {"fire_event", "fire_event_pre"} : HandlerFires(o, op)
    \/ \E pass \in BOOLEAN : HandlerResumes(pass)
    \/ HandlerReraises

\* The host program with handlers that register, unregister and fire; the
\* host itself only creates objects, enables events, registers and fires.
NextHooks ==
    \/ \E o \in Objs : \E t \in InstTypes(o) : NewEmitter(o, t)
    \/ \E o \in Objs : SetEventsEnabled(o, TRUE)
    \/ \E o \in Objs, e \in RegEvents, f \in AddFuncs : add_handler(o, e, f)
    \/ \E o \in Objs, e \in EventNames : fire_event(o, e)
    \/ \E o \in Objs, e \in EventNames : fire_event_pre(o, e)
    \/ Running

SpecHooks == Init /\ [][NextHooks]_vars /\ WF_vars(Running)

\* The host program with handlers that disable the events of the object
\* they are called for and handlers that fire; the tables change between
\* the host's calls only.
NextFlag ==
    \/ \E o \in Objs : \E t \in InstTypes(o) : NewEmitter(o, t)
    \/ \E o \in Objs : SetEventsEnabled(o, TRUE)
    \/ \E o \in Objs, e \in RegEvents, f \in AddFuncs : add_handler(o, e, f)
    \/ \E o \in Objs, e \in EventNames : fire_event(o, e)
    \/ \E o \in Objs, e \in EventNames : fire_event_pre(o, e)
    \/ HandlerReturns
    \/ HandlerRaises
    \/ HandlerDisables
    \/ \E o \in Objs, op \in {"fire_event", "fire_event_pre"} : HandlerFires(o, op)
    \/ \E pass \in BOOLEAN : HandlerResumes(pass)
    \/ HandlerReraises

SpecFlag == Init /\ [][NextFlag]_vars


\* ------------------------------------------------- vocabulary of the claims
FireOps == {"fire_event", "fire_event_pre"}

\* The types a type derives from, directly or not (from the class statements).
RECURSIVE Ancestors(_)
Ancestors(t) ==
    UNION {{Bases(t)[i]} \cup Ancestors(Bases(t)[i]) : i \in 1..Len(Bases(t))}

\* Positions of the trace at which function f was invoked at node n.
Calls(n, f) == {i \in 1..Len(trace) : trace[i] = <<n, f>>}

\* The functions invoked so far at node n.
InvokedAt(n) == {trace[i][2] : i \in {j \in 1..Len(trace) : trace[j][1] = n}}

\* A firing call that got past the events_enabled test.
InLoop == call.op \in FireOps /\ ni > 0

\* A firing call that returned after walking its whole order.
Completed == InLoop /\ pc = "done" /\ result.status = "returned"

\* A step that starts an operation of the host.
Starts(op) == AtTop /\ call'.op = op

\* C1: a firing call on an object whose events_enabled is false when the call
\* is made returns the empty list at once, calls no handler and raises nothing,
\* whatever the event and whatever the type and instance tables hold.
C1_DisabledIsNoop ==
    [][\A op \in FireOps :
          (Starts(op) /\ ~events_enabled[call'.obj]) =>
              /\ pc' = "done"
              /\ result' = Returned(List(<<>>))
              /\ trace' = <<>>
              /\ pending' = <<>>]_vars

C1_Witness ==
    /\ pc = "done"
    /\ call.op = "fire_event_pre"
    /\ call.event = "x"
    /\ ~events_enabled[call.obj]
    /\ otype[call.obj] = "D"
    /\ inst_handlers[call.obj]["x"] # {}
    /\ result = Returned(List(<<>>))
    /\ trace = <<>>

\* C2: fire_event calls the handlers of a more-base type before those of a
\* type derived from it, and the handlers of every type before the handlers
\* registered on the object; the object is the last node of the order.
C2_FireBaseFirstObjectLast ==
    call.op = "fire_event" =>
        /\ nodes[Len(nodes)] = call.obj
        /\ \A k \in 1..(Len(nodes) - 1) : nodes[k] \in Types
        /\ \A i, j \in 1..Len(trace) :
              i < j =>
                 /\ trace[i][1] \in Objs => trace[j][1] \in Objs
                 /\ (trace[i][1] \in Types /\ trace[j][1] \in Types)
                        => trace[j][1] \notin Ancestors(trace[i][1])

C2_Witness ==
    /\ Completed
    /\ call.op = "fire_event"
    /\ \E i, j, k \in 1..Len(trace) :
          /\ i < j /\ j < k
          /\ trace[i] = <<"A", "hA">>
          /\ trace[j] = <<"D", "hD">>
          /\ trace[k] = <<call.obj, "g1">>

\* C3: fire_event_pre calls the handlers registered on the object before the
\* handlers of every type, and those of a derived type before those of the
\* types it derives from; its order is the order of fire_event reversed.
C3_PreObjectFirstDerivedFirst ==
    call.op = "fire_event_pre" =>
        /\ nodes = Reverse(FireOrder(call.obj))
        /\ nodes[1] = call.obj
        /\ \A i, j \in 1..Len(trace) :
              i < j =>
                 /\ trace[j][1] \in Objs => trace[i][1] \in Objs
                 /\ (trace[i][1] \in Types /\ trace[j][1] \in Types)
                        => trace[i][1] \notin Ancestors(trace[j][1])

C3_Witness ==
    /\ Completed
    /\ call.op = "fire_event_pre"
    /\ \E i, j, k \in 1..Len(trace) :
          /\ i < j /\ j < k
          /\ trace[i] = <<call.obj, "g1">>
          /\ trace[j] = <<"D", "hD">>
          /\ trace[k] = <<"A", "hA">>

\* C4: at one node, in both directions of traversal, every handler that has
\* ha_bound is called before any handler that has not.
C4_BoundBeforeUnbound ==
    call.op \in FireOps =>
        \A i, j \in 1..Len(trace) :
            (i < j /\ trace[i][1] = trace[j][1]) =>
                ~(~has_ha_bound(trace[i][2]) /\ has_ha_bound(trace[j][2]))

C4_Witness ==
    /\ Completed
    /\ call.op = "fire_event_pre"
    /\ \E i, j, k, m \in 1..Len(trace) :
          /\ i < j /\ j < k /\ k < m
          /\ trace[i] = <<call.obj, "g2">>
          /\ trace[j] = <<call.obj, "g1">>
          /\ trace[k] = <<"A", "hW">>
          /\ trace[m] = <<"A", "hU">>

\* The effects of the invocations tr, in order; None gives no element.
RECURSIVE Flatten(_)
Flatten(tr) ==
    IF tr = <<>> THEN <<>>
    ELSE (IF Returns(Head(tr)[2]).none THEN <<>> ELSE Returns(Head(tr)[2]).items)
             \o Flatten(Tail(tr))

\* C5: a firing call in which no handler raises returns the concatenation, in
\* the order of invocation, of the elements of every return value that is not
\* None; None and an empty iterable add nothing.
C5_EffectsConcatenated ==
    (call.op \in FireOps /\ pc = "done" /\ result.status = "returned") =>
        result.value = List(Flatten(trace))

C5_Witness ==
    /\ Completed
    /\ call.op = "fire_event"
    /\ result.value = List(<<1, 2, 5, 3, 4>>)
    /\ \E i \in 1..Len(trace) : Returns(trace[i][2]) = None
    /\ \E i \in 1..Len(trace) : Returns(trace[i][2]) = List(<<>>)

\* C6: when a handler raises, the firing call ends with that exception and
\* without an effects list, and no further handler of the call is invoked,
\* at the same node or at a later one.
C6_RaiseAborts ==
    /\ []((call.op \in FireOps /\ result.status = "raised") =>
            /\ pc = "done"
            /\ result.value = None
            /\ trace # <<>>
            /\ result.exc = <<"HandlerFailure", trace[Len(trace)][2]>>)
    /\ [][(call.op \in FireOps /\ result.status = "raised") =>
             (trace' = trace \/ trace' = <<>>)]_vars

C6_Witness ==
    /\ call.op = "fire_event_pre"
    /\ result.status = "raised"
    /\ result.exc = <<"HandlerFailure", "hA">>
    /\ effects # <<>>
    /\ pending # <<>>
    /\ ni < Len(nodes)

\* C7: the handlers called at a node are the node's handlers for the fired
\* event together with its handlers for "*", each called once, also when a
\* handler is in both sets.
C7_WildcardUnion ==
    InLoop =>
        \A k \in 1..Len(nodes) :
            k < ni =>
               LET n == nodes[k]
                   expected ==
                       IF HasHandlersDict(n, cls_handlers)
                       THEN HandlersDict(n, cls_handlers, inst_handlers)[call.event]
                            \cup HandlersDict(n, cls_handlers, inst_handlers)["*"]
                       ELSE {}
               IN /\ InvokedAt(n) = expected
                  /\ \A f \in expected : Cardinality(Calls(n, f)) = 1

C7_Witness ==
    /\ Completed
    /\ call.event = "x"
    /\ inst_handlers[call.obj]["x"] = {"g2"}
    /\ inst_handlers[call.obj]["*"] = {"g1"}
    /\ InvokedAt(call.obj) = {"g1", "g2"}
    /\ "hW" \in cls_handlers["A"]["x"] \cap cls_handlers["A"]["*"]
    /\ Cardinality(Calls("A", "hW")) = 1

\* C8: the table of a type holds only functions the type declares itself;
\* firing x on an enabled E (which declares no handler, and derives from A,
\* which declares hA for x) calls hA exactly once, at node A.
C8_OwnHandlersOnly ==
    /\ \A t \in DOMAIN cls_handlers : \A e \in EventNames :
          cls_handlers[t][e] \subseteq {ClassDict(t)[a] : a \in DOMAIN ClassDict(t)}
    /\ (Completed /\ otype[call.obj] = "E" /\ call.event = "x") =>
          /\ Cardinality({i \in 1..Len(trace) : trace[i][2] = "hA"}) = 1
          /\ Cardinality(Calls("A", "hA")) = 1

C8_Witness ==
    /\ Completed
    /\ call.op = "fire_event"
    /\ otype[call.obj] = "E"
    /\ call.event = "x"
    /\ cls_handlers["E"] = EmptyTable
    /\ "hA" \in cls_handlers["A"]["x"]
    /\ Cardinality(Calls("A", "hA")) = 1

\* What remove_handler(o, event, func) does: KeyError and no change when func
\* is not in the table of o for that event, whatever else holds func;
\* otherwise func leaves that set and nothing else changes.
RemoveContract ==
    Starts("remove_handler") =>
        LET o == call'.obj
            e == call'.event
            f == call'.fn
        IN IF f \notin inst_handlers[o][e]
           THEN /\ result' = Raised("KeyError", "remove")
                /\ inst_handlers' = inst_handlers
           ELSE /\ result' = Returned(None)
                /\ inst_handlers' =
                       [inst_handlers EXCEPT ![o][e] = inst_handlers[o][e] \ {f}]

\* The firing of an event on an object right after func was removed for that
\* event does not call func at the object node.
FiringAfterRemoveSkips ==
    (/\ pc = "done"
     /\ call.op = "remove_handler"
     /\ result.status = "returned"
     /\ call'.op = "fire_event_pre"
     /\ call'.obj = call.obj
     /\ call'.event = call.event
     /\ pc' = "dispatch"
     /\ nodes'[ni'] = call.obj)
        => \A i \in 1..Len(pending') : pending'[i] # call.fn

C10_Original ==
    (call.op = "remove_handler" /\ saved.valid) =>
        inst_handlers[call.obj] = saved.table

\* C10, amended: the pair leaves the table of the object as it was provided
\* func was not registered for that event on the object before the pair.
C10_AddRemoveRoundTrip ==
    (call.op = "remove_handler" /\ saved.valid
        /\ call.fn \notin saved.table[call.event]) =>
        /\ result = Returned(None)
        /\ inst_handlers[call.obj] = saved.table

C10_Witness ==
    /\ call.op = "remove_handler"
    /\ saved.valid
    /\ call.fn \notin saved.table[call.event]
    /\ saved.table[call.event] # {}
    /\ inst_handlers[call.obj] = saved.table


\* C11: add_handler of a function already registered for the event leaves
\* the tables as they are; a firing calls a function at most once at the
\* object node; and after one successful remove_handler the same
\* remove_handler fails with KeyError.
C11_AddIdempotent ==
    /\ [][(Starts("add_handler")
            /\ call'.fn \in inst_handlers[call'.obj][call'.event]) =>
             /\ inst_handlers' = inst_handlers
             /\ result' = Returned(None)]_vars
    /\ [][(call.op = "remove_handler" /\ result.status = "returned"
            /\ Starts("remove_handler") /\ call' = call) =>
             result' = Raised("KeyError", "remove")]_vars
    /\ [](InLoop => \A f \in Funcs : Cardinality(Calls(call.obj, f)) <= 1)

C11_Witness ==
    /\ call.op = "add_handler"
    /\ saved.valid
    /\ call.fn \in saved.table[call.event]
    /\ inst_handlers[call.obj] = saved.table
    /\ Cardinality(saved.table[call.event]) = 2

C14_ManagedAttributesSkipped ==
    \A t \in DOMAIN cls_handlers : \A a \in DOMAIN ClassDict(t) :
        LET m == ClassDict(t)[a] IN
        IF HasPropertyList(t) /\ a \in property_list(t)
        THEN \A e \in EventNames : m \notin cls_handlers[t][e]
        ELSE (m \in Funcs /\ has_ha_events(m)) =>
                 \A e \in EventNames : (m \in cls_handlers[t][e]) <=> (e \in ha_events(m))

C14_Witness ==
    /\ ClassDict("C")["label"] = "pC"
    /\ "label" \in property_list("C")
    /\ has_ha_events("pC")
    /\ cls_handlers["C"]["x"] = {"hC"}
    /\ ~HasPropertyList("F")
    /\ cls_handlers["F"]["x"] = {"pF"}
    /\ Completed /\ otype[call.obj] = "D" /\ call.event = "x"
    /\ InvokedAt("C") = {"hC"}

\* Number of positions of the order s that hold the node n.
Occurrences(s, n) == Cardinality({k \in 1..Len(s) : s[k] = n})

\* Positions of the trace at which a handler was invoked at node n.
At(n) == {i \in 1..Len(trace) : trace[i][1] = n}

\* C16: a firing on a D (D derives from B and C, both from A) has each of
\* A, B, C, D once in its order and calls A's handler for the event once:
\* before the handlers of B, C and D in fire_event, after them in fire_event_pre.
C16_DiamondOnce ==
    (call.op \in FireOps /\ otype[call.obj] = "D") =>
        /\ \A t \in {"A", "B", "C", "D"} : Occurrences(nodes, t) = 1
        /\ (Completed /\ call.event = "x") =>
              /\ Cardinality({i \in 1..Len(trace) : trace[i][2] = "hA"}) = 1
              /\ \A t \in {"B", "C", "D"} :
                    /\ At(t) # {}
                    /\ \A i \in Calls("A", "hA") : \A j \in At(t) :
                          IF call.op = "fire_event" THEN i < j ELSE j < i

C16_Witness ==
    /\ Completed
    /\ call.op = "fire_event_pre"
    /\ otype[call.obj] = "D"
    /\ call.event = "x"
    /\ Bases("D") = <<"B", "C">>
    /\ "A" \in Ancestors("B") \cap Ancestors("C")
    /\ \E i, j, k, m \in 1..Len(trace) :
          /\ i < j /\ j < k /\ k < m
          /\ trace[i] = <<"D", "hD">>
          /\ trace[j] = <<"B", "hB">>
          /\ trace[k] = <<"C", "hC">>
          /\ trace[m] = <<"A", "hA">>

\* C18: A and B both declare on_x as a handler for x; a firing of x on an
\* object whose class derives from B calls both hA and hB, each once: hA
\* first in fire_event, hB first in fire_event_pre.
C18_RedeclaredBothRun ==
    (Completed /\ call.event = "x" /\ "B" \in Ancestors(otype[call.obj])) =>
        /\ Cardinality({i \in 1..Len(trace) : trace[i][2] = "hA"}) = 1
        /\ Cardinality({i \in 1..Len(trace) : trace[i][2] = "hB"}) = 1
        /\ \A i \in Calls("A", "hA") : \A j \in Calls("B", "hB") :
              IF call.op = "fire_event" THEN i < j ELSE j < i
        /\ Calls("A", "hA") # {} /\ Calls("B", "hB") # {}

C18_Witness ==
    /\ Completed
    /\ call.op = "fire_event"
    /\ call.event = "x"
    /\ "B" \in Ancestors(otype[call.obj])
    /\ ClassDict("A")["on_x"] = "hA"
    /\ ClassDict("B")["on_x"] = "hB"
    /\ \E i, j \in 1..Len(trace) :
          i < j /\ trace[i] = <<"A", "hA">> /\ trace[j] = <<"B", "hB">>

\* ------------------------------------------ handlers that call the emitter
\* The firing call the host made, under which any inner call runs.
TopCall == IF stack = <<>> THEN call ELSE stack[1].call

\* The host's firing call has returned.
TopDone == AtTop /\ Completed

Range(s) == {s[i] : i \in 1..Len(s)}

\* Entry i of the log: a handler of a type node of the host's call
\* registered HookFunc on the firing object.
AddAtType(i) ==
    /\ log[i].d = 1
    /\ log[i].act = "add"
    /\ log[i].n \notin Objs

\* Entry j of the log: the host's call invokes HookFunc at the object node.
RunsHook(j) ==
    /\ log[j].d = 1
    /\ log[j].tag = "enter"
    /\ log[j].n = TopCall.obj
    /\ log[j].f = HookFunc

\* A step with which the loop of the current call comes to the object node.
ReachesObjectNode ==
    /\ pc' = "dispatch"
    /\ Len(stack') = Len(stack)
    /\ nodes'[ni'] = call'.obj
    /\ (AtTop \/ ni' # ni)

\* C19: the handlers called at the object node are those of the instance
\* table as it is when the loop comes to that node.  So when a handler of a
\* type node registers HookFunc for the fired event during fire_event, a
\* call that returns has invoked HookFunc at the object node afterwards;
\* during fire_event_pre HookFunc is not invoked at the object node after
\* the registration.
C19_InstanceTableReadAtObjectNode ==
    /\ [][ReachesObjectNode =>
             Range(pending') = Candidates(inst_handlers'[call'.obj], call'.event)]_vars
    /\ []((TopDone /\ call.op = "fire_event") =>
             \A i \in 1..Len(log) :
                 AddAtType(i) => \E j \in (i + 1)..Len(log) : RunsHook(j))
    /\ [](TopCall.op = "fire_event_pre" =>
             \A i \in 1..Len(log) :
                 AddAtType(i) => ~\E j \in (i + 1)..Len(log) : RunsHook(j))

C19_Witness ==
    /\ TopDone
    /\ call.op = "fire_event"
    /\ inst_handlers[call.obj]["*"] = {}
    /\ \E i \in 1..Len(log) :
          /\ AddAtType(i)
          /\ log[i].f = "hD"
          /\ \E j \in (i + 1)..Len(log) : RunsHook(j)

\* What the current call has called and still has to call at its node.
Planned == InvokedAt(nodes[ni]) \cup Range(pending)

\* A step of the current call that leaves it at the object node.
StaysAtObjectNode ==
    /\ pc = "dispatch"
    /\ pc' = "dispatch"
    /\ Len(stack') = Len(stack)
    /\ ni' = ni
    /\ nodes[ni] = call.obj

\* The running handler unregistered HookFunc, which is still to be called.
RemovesPlanned ==
    /\ pc = "dispatch"
    /\ Len(stack') = Len(stack)
    /\ nodes[ni] = call.obj
    /\ HookFunc \in inst_handlers[call.obj][call.event]
    /\ HookFunc \notin inst_handlers'[call.obj][call.event]
    /\ HookFunc \in Range(Tail(pending))

\* The running handler registered HookFunc, which was not to be called.
AddsUnplanned ==
    /\ pc = "dispatch"
    /\ Len(stack') = Len(stack)
    /\ nodes[ni] = call.obj
    /\ HookFunc \notin inst_handlers[call.obj][call.event]
    /\ HookFunc \in inst_handlers'[call.obj][call.event]
    /\ HookFunc \notin Planned

\* C20: the handlers called at the object node are the ones found when the
\* loop came to it.  While the call stays at the object node, what it has
\* called and still has to call there does not change, whatever the running
\* handler registers or unregisters: a function unregistered there is the
\* head of the list when its turn comes, a function registered there is not
\* put on the list, and it is on the list of the next call.
C20_NodeHandlersFixed ==
    /\ [][StaysAtObjectNode =>
             /\ pending' = Tail(pending)
             /\ Planned' = Planned]_vars
    /\ [][RemovesPlanned => (pc' = "dispatch" /\ HookFunc \in Range(pending'))]_vars
    /\ [][AddsUnplanned =>
             /\ HookFunc \notin Range(pending')
             /\ pc' = "dispatch" => (ni' = ni \/ nodes'[ni'] \notin Objs)]_vars
    /\ [][ReachesObjectNode =>
             pending' \in SortedHandlers(
                 Candidates(inst_handlers'[call'.obj], call'.event))]_vars

\* g2 unregistered g1 at the object node and g1 was called there after it.
C20_Witness ==
    /\ TopDone
    /\ HookFunc \notin inst_handlers[call.obj][call.event]
    /\ HookFunc \notin inst_handlers[call.obj]["*"]
    /\ \E i \in 1..Len(log) :
          /\ log[i].d = 1
          /\ log[i].n = call.obj
          /\ log[i].f = "g2"
          /\ log[i].act = "remove"
          /\ \E j \in (i + 1)..Len(log) : RunsHook(j)

\* No handler of the host's call has fired an event so far.
NoInnerCall == stack = <<>> /\ \A i \in 1..Len(log) : log[i].act # "fire"

\* A handler of the host's call registered or unregistered HookFunc.
Changed == \E i \in 1..Len(log) : log[i].d = 1 /\ log[i].act \in {"add", "remove"}

\* C17: a firing call whose handlers fire no event calls no function twice
\* at a node, and from any point of its loop it comes to its end, returning
\* or raising, unless a handler fires an event; handlers that register and
\* unregister on the firing object make no difference.
C17_CallFinishes ==
    /\ []((InLoop /\ NoInnerCall) =>
             \A i, j \in 1..Len(trace) : trace[i] = trace[j] => i = j)
    /\ (pc = "dispatch" /\ NoInnerCall) ~>
             ((pc = "done" /\ stack = <<>>) \/ ~NoInnerCall)

\* A call in which g2 registered g1 at the object node has returned.
C17_Witness ==
    /\ TopDone
    /\ NoInnerCall
    /\ Changed
    /\ Len(trace) >= 3
    /\ \E i \in 1..Len(log) :
          log[i].n = call.obj /\ log[i].f = "g2" /\ log[i].act = "add"

\* The values that the handlers called at depth d returned, in the order
\* of the calls.
RECURSIVE ReturnedAt(_, _)
ReturnedAt(l, d) ==
    IF l = <<>> THEN <<>>
    ELSE LET e == Head(l) IN
         (IF e.d = d /\ e.tag = "exit" /\ e.val # None THEN e.val.items ELSE <<>>)
             \o ReturnedAt(Tail(l), d)

\* Entry k of the log is the start of a handler that fires an event.
FiresAt(k) == log[k].tag = "enter" /\ log[k].act = "fire"

\* The entries of the log after k made at the depth of entry k or above it.
Outer(k) == {m \in (k + 1)..Len(log) : log[m].d <= log[k].d}

\* Every start of a handler is followed by its end, with nothing between
\* them but the entries of a call that the handler made.
WellNested ==
    \A k \in 1..Len(log) :
        /\ (log[k].tag = "enter" /\ Outer(k) # {}) =>
               LET j == CHOOSE m \in Outer(k) : \A n \in Outer(k) : m <= n IN
               /\ log[j].d = log[k].d
               /\ log[j].n = log[k].n
               /\ log[j].f = log[k].f
               /\ log[j].tag \in {"exit", "raise"}
               /\ \A m \in (k + 1)..(j - 1) : FiresAt(k) /\ log[m].d = log[k].d + 1
               /\ (j > k + 1) => log[j - 1].tag \in {"exit", "raise"}
        /\ log[k].d > 1 =>
               \E i \in 1..(k - 1) :
                   /\ FiresAt(i)
                   /\ log[i].d = log[k].d - 1
                   /\ \A m \in (i + 1)..k : log[m].d >= log[k].d

\* C15: a handler that fires an event waits for the inner call: all that
\* the inner call does lies between the start and the end of that handler,
\* the frame of the outer call is not touched meanwhile and is taken up only
\* when the inner call is over, and the list a call returns is made of the
\* values its own handlers returned, so the effects of the inner call are in
\* it only as far as the handler that fired returned them.
C15_NestedFiringStackLike ==
    /\ []WellNested
    /\ [][Len(stack') < Len(stack) => (pc = "done" /\ pending = <<>>)]_vars
    /\ [][(stack # <<>> /\ Len(stack') >= Len(stack)) =>
             SubSeq(stack', 1, Len(stack)) = stack]_vars
    /\ []((pc = "done" /\ result.status = "returned" /\ ni > 0) =>
             result.value = List(ReturnedAt(log, Depth)))

\* hC fired y, the inner call returned g1's value, hC returned its own and
\* the outer call went on with the handlers of B.
C15_Witness ==
    /\ TopDone
    /\ \E k \in 1..Len(log) :
          /\ FiresAt(k)
          /\ log[k].d = 1
          /\ \E m \in (k + 1)..Len(log) :
                /\ log[m].d = 2
                /\ log[m].val = List(<<4>>)
          /\ \E j \in (k + 1)..Len(log) :
                /\ log[j].d = 1
                /\ log[j].f = log[k].f
                /\ log[j].tag = "exit"
                /\ log[j].val = Returns(log[k].f)
                /\ \E n \in (j + 1)..Len(log) : log[n].d = 1 /\ log[n].f = "hB"
    /\ result.value = List(<<1, 2, 5, 3>>)

\* A handler of the current call sets the flag of the firing object to
\* False with this step.
Disables ==
    /\ pc = "dispatch"
    /\ Len(stack') = Len(stack)
    /\ events_enabled[call.obj]
    /\ ~events_enabled'[call.obj]

\* A firing call for object o starts with this step, made by the host or by
\* a handler.
CallStarts(o) ==
    /\ call'.op \in FireOps
    /\ call'.obj = o
    /\ AtTop \/ Len(stack') > Len(stack)

\* Entry i of the log: a handler called for object o set o's flag to False.
DisabledAt(i, o) ==
    /\ log[i].act = "disable"
    /\ IF log[i].d = 1 THEN TopCall.obj = o ELSE call.obj = o

\* The call has called, at every node of its order that has a table, the
\* functions of that table for the event.
AllCalled ==
    \A k \in 1..Len(nodes) :
        HasHandlersDict(nodes[k], cls_handlers) =>
            InvokedAt(nodes[k]) =
                Candidates(HandlersDict(nodes[k], cls_handlers, inst_handlers),
                           call.event)

\* C21: events_enabled is tested when the firing call starts and not again.
\* The step of a handler that sets it to False goes on as the step of any
\* handler that returns: the next function of the node or the next node is
\* taken and the value returned is put on the list.  A call that returns
\* after its loop has called every function of every node and returns the
\* values of its handlers.  A call that starts returns the empty list at
\* once exactly when the flag is False at that moment.
C21_FlagReadAtStart ==
    /\ [][Disables =>
             /\ effects' = Extend(effects, Returns(Head(pending)))
             /\ result'.status # "returned" \/ ni' > Len(nodes)
             /\ IF Tail(pending) # <<>>
                THEN pc' = "dispatch" /\ ni' = ni /\ pending' = Tail(pending)
                ELSE ni' = NextNode(nodes, ni, call.event, cls_handlers, inst_handlers)]_vars
    /\ []((pc = "done" /\ result.status = "returned" /\ InLoop) =>
             /\ AllCalled
             /\ result.value = List(ReturnedAt(log, Depth)))
    /\ [][\A o \in Objs : CallStarts(o) =>
             (~events_enabled[o] <=>
                 (pc' = "done" /\ ni' = 0 /\ result' = Returned(List(<<>>))))]_vars

\* hA set the flag of the D object to False; hC, hB and hD were called
\* after it and the call returned the values of all of them.
C21_Witness ==
    /\ TopDone
    /\ call.event = "x"
    /\ ~events_enabled[call.obj]
    /\ \E i \in 1..Len(log) :
          /\ DisabledAt(i, call.obj)
          /\ log[i].d = 1
          /\ log[i].f = "hA"
          /\ \E j \in (i + 1)..Len(log) : log[j].d = 1 /\ log[j].f = "hD"
    /\ AllCalled
    /\ Len(result.value.items) >= 4

====
